---- MODULE Spec2Model ----
(***************************************************************************)
(* Model of extractorjson.py: the RDF list materializer, the class         *)
(* expression summarizer, the property characteristics extractor, the      *)
(* annotation collector and the term gatherer.                             *)
(*                                                                         *)
(* A graph is the sequence of its (distinct) triples in store order: the   *)
(* order in which g.objects / g.predicate_objects hand them out and in     *)
(* which g.value finds its first match.                                    *)
(***************************************************************************)
EXTENDS Naturals, Sequences, FiniteSets, TLC

VARIABLES g, node, pc, out, terms, idx, symbol_entries, result_terms

vars == <<g, node, pc, out, terms, idx, symbol_entries, result_terms>>

(***************************************************************************)
(* Bounds of the model.                                                    *)
(***************************************************************************)
MaxCells == 3
MaxExprTriples == 3
MaxTermTriples == 3

(***************************************************************************)
(* Graph nodes: rdflib's URIRef, BNode and Literal, and one node of        *)
(* another kind (rdflib's Variable).  str(node) is the id: a URIRef and a  *)
(* Literal may have the same string form.                                  *)
(***************************************************************************)
URIRef(s) == [kind |-> "URIRef", id |-> s]
BNode(s) == [kind |-> "BNode", id |-> s]
Literal(s) == [kind |-> "Literal", id |-> s]
Variable(s) == [kind |-> "Variable", id |-> s]
None == [kind |-> "None", id |-> ""]

RDF_type == URIRef("rdf:type")
RDF_first == URIRef("rdf:first")
RDF_rest == URIRef("rdf:rest")
RDF_nil == URIRef("rdf:nil")
RDFS_subClassOf == URIRef("rdfs:subClassOf")
RDFS_domain == URIRef("rdfs:domain")
RDFS_range == URIRef("rdfs:range")
RDFS_subPropertyOf == URIRef("rdfs:subPropertyOf")
RDFS_label == URIRef("rdfs:label")
RDFS_comment == URIRef("rdfs:comment")
RDFS_seeAlso == URIRef("rdfs:seeAlso")
SKOS_prefLabel == URIRef("skos:prefLabel")
SKOS_altLabel == URIRef("skos:altLabel")
OWL_Class == URIRef("owl:Class")
OWL_ObjectProperty == URIRef("owl:ObjectProperty")
OWL_DatatypeProperty == URIRef("owl:DatatypeProperty")
OWL_AnnotationProperty == URIRef("owl:AnnotationProperty")
OWL_Restriction == URIRef("owl:Restriction")
OWL_equivalentClass == URIRef("owl:equivalentClass")
OWL_inverseOf == URIRef("owl:inverseOf")
OWL_onProperty == URIRef("owl:onProperty")
OWL_someValuesFrom == URIRef("owl:someValuesFrom")
OWL_allValuesFrom == URIRef("owl:allValuesFrom")
OWL_hasValue == URIRef("owl:hasValue")
OWL_minQualifiedCardinality == URIRef("owl:minQualifiedCardinality")
OWL_maxQualifiedCardinality == URIRef("owl:maxQualifiedCardinality")
OWL_qualifiedCardinality == URIRef("owl:qualifiedCardinality")
OWL_minCardinality == URIRef("owl:minCardinality")
OWL_maxCardinality == URIRef("owl:maxCardinality")
OWL_cardinality == URIRef("owl:cardinality")
OWL_intersectionOf == URIRef("owl:intersectionOf")
OWL_unionOf == URIRef("owl:unionOf")
OWL_complementOf == URIRef("owl:complementOf")
OWL_oneOf == URIRef("owl:oneOf")
OWL_FunctionalProperty == URIRef("owl:FunctionalProperty")
OWL_InverseFunctionalProperty == URIRef("owl:InverseFunctionalProperty")
OWL_TransitiveProperty == URIRef("owl:TransitiveProperty")
OWL_SymmetricProperty == URIRef("owl:SymmetricProperty")
OWL_AsymmetricProperty == URIRef("owl:AsymmetricProperty")
OWL_ReflexiveProperty == URIRef("owl:ReflexiveProperty")
OWL_IrreflexiveProperty == URIRef("owl:IrreflexiveProperty")

(***************************************************************************)
(* The graph store's queries, as the program uses them.                    *)
(***************************************************************************)
Range(s) == {s[i] : i \in 1..Len(s)}

MapThird(s) == [i \in 1..Len(s) |-> s[i][3]]

MapThirdIds(s) == [i \in 1..Len(s) |-> s[i][3].id]

\* g.objects(subject, predicate), in store order
Objects(gr, s, p) == MapThird(SelectSeq(gr, LAMBDA t : t[1] = s /\ t[2] = p))

\* g.value(subject, predicate): the first object found, or None
Value(gr, s, p) ==
    LET os == Objects(gr, s, p) IN IF Len(os) = 0 THEN None ELSE os[1]

\* (s, p, o) in g
HasTriple(gr, s, p, o) == <<s, p, o>> \in Range(gr)

\* (s, p, None) in g
HasAny(gr, s, p) == \E i \in 1..Len(gr) : gr[i][1] = s /\ gr[i][2] = p

\* g.predicate_objects(subject), in store order
PredicateObjects(gr, s) == SelectSeq(gr, LAMBDA t : t[1] = s)

\* set(g.subjects(predicate, object))
SubjectsOf(gr, p, o) == {gr[i][1] : i \in {j \in 1..Len(gr) : gr[j][2] = p /\ gr[j][3] = o}}

\* set(g.subjects(predicate, None))
SubjectsWith(gr, p) == {gr[i][1] : i \in {j \in 1..Len(gr) : gr[j][2] = p}}

\* set(g.subjects())
Subjects(gr) == {gr[i][1] : i \in 1..Len(gr)}

fq(n) == n.id

(***************************************************************************)
(* rdf_list_to_py.  CollectionItems is the iteration of                    *)
(* rdflib.collection.Collection (Graph.items): it skips a link with no     *)
(* rdf:first, follows rdf:rest until there is none, and raises on a link   *)
(* seen before.  The items appended before the raise stay in the list.     *)
(* ManualWalk is the except branch; it does not return on a rest cycle     *)
(* whose links all carry a first (status "hang").                          *)
(***************************************************************************)
RECURSIVE CollectionItems(_, _, _, _)
CollectionItems(gr, cur, chain, acc) ==
    IF cur = None
    THEN [raised |-> FALSE, items |-> acc]
    ELSE LET item == Value(gr, cur, RDF_first)
             acc2 == IF item # None THEN Append(acc, item) ELSE acc
             nxt == Value(gr, cur, RDF_rest)
         IN  IF nxt \in chain
             THEN [raised |-> TRUE, items |-> acc2]
             ELSE CollectionItems(gr, nxt, chain \cup {nxt}, acc2)

RECURSIVE ManualWalk(_, _, _, _)
ManualWalk(gr, cur, visited, acc) ==
    IF cur = None \/ cur = RDF_nil
    THEN [status |-> "ok", items |-> acc]
    ELSE IF cur \in visited
    THEN [status |-> "hang", items |-> acc]
    ELSE LET first == Value(gr, cur, RDF_first)
         IN  IF first = None
             THEN [status |-> "ok", items |-> acc]
             ELSE ManualWalk(gr, Value(gr, cur, RDF_rest),
                             visited \cup {cur}, Append(acc, first))

\* The manual walk run after the iteration whether or not it raised.
rdf_list_to_py_AlwaysWalk(gr, n) ==
    ManualWalk(gr, n, {}, CollectionItems(gr, n, {n}, <<>>).items)

rdf_list_to_py(gr, n) ==
    LET coll == CollectionItems(gr, n, {n}, <<>>)
    IN  IF coll.raised
        THEN ManualWalk(gr, n, {}, coll.items)
        ELSE [status |-> "ok", items |-> coll.items]


(***************************************************************************)
(* JSON values of an Expression Record that are not records themselves:    *)
(* a string (fq of a node) or null (fq(None)).                             *)
(***************************************************************************)
JStr(s) == [str |-> s]
JNull == [null |-> TRUE]
fqJson(n) == IF n = None THEN JNull ELSE JStr(fq(n))

\* The call does not return: RecursionError (a node is summarized inside
\* its own summary, so the recursion never ends) or a list walk that hangs.
RecursionError == [exprType |-> "RecursionError"]
Hang == [exprType |-> "Hang"]
IsFailure(r) == r.exprType \in {"RecursionError", "Hang"}

\* The first element of a sequence of results that did not return, if any.
HasFailure(rs) == \E i \in 1..Len(rs) : IsFailure(rs[i])
FirstFailure(rs) ==
    rs[CHOOSE i \in 1..Len(rs) :
          IsFailure(rs[i]) /\ \A j \in 1..(i - 1) : ~IsFailure(rs[j])]

\* dict.setdefault(str(p), []).append(fq(o)) over (p, o) pairs in order
GroupByPredicate(po) ==
    [k \in {fq(po[i][2]) : i \in 1..Len(po)} |->
        LET sel == SelectSeq(po, LAMBDA t : fq(t[2]) = k)
        IN  [i \in 1..Len(sel) |-> fq(sel[i][3])]]

\* The (predicate, key) list of the Restriction branch, in its order.
Fillers ==
    << <<OWL_someValuesFrom, "someValuesFrom">>,
       <<OWL_allValuesFrom, "allValuesFrom">>,
       <<OWL_hasValue, "hasValue">>,
       <<OWL_minQualifiedCardinality, "minQualifiedCardinality">>,
       <<OWL_maxQualifiedCardinality, "maxQualifiedCardinality">>,
       <<OWL_qualifiedCardinality, "qualifiedCardinality">>,
       <<OWL_minCardinality, "minCardinality">>,
       <<OWL_maxCardinality, "maxCardinality">>,
       <<OWL_cardinality, "cardinality">> >>

\* Line 76: the node is typed owl:Restriction or has an owl:onProperty.
IsRestrictionTypedOnly(gr, n) == HasTriple(gr, n, RDF_type, OWL_Restriction)
IsRestriction(gr, n) ==
    HasTriple(gr, n, RDF_type, OWL_Restriction) \/ Value(gr, n, OWL_onProperty) # None

\* Line 90: a filler that is a BNode or a URIRef is summarized.
IsNodeFillerAlways(val) == TRUE
IsNodeFiller(val) == val.kind \in {"BNode", "URIRef"}

\* Line 106: the node whose summary is the operand of a Complement.
ComplementOperandSelf(gr, n) == n
ComplementOperand(gr, n) == Value(gr, n, OWL_complementOf)

(***************************************************************************)
(* summarize_expression.  stack is the set of anonymous nodes whose        *)
(* summaries are being built by the callers.                               *)
(***************************************************************************)
RECURSIVE summarize_expression(_, _, _)
summarize_expression(gr, n, stack) ==
    IF n.kind = "URIRef" THEN [exprType |-> "Named", iri |-> fq(n)]
    ELSE IF n.kind = "Literal" THEN [exprType |-> "Literal", value |-> fq(n)]
    ELSE IF n.kind # "BNode" THEN [exprType |-> "Unknown", value |-> fq(n)]
    ELSE IF n \in stack THEN RecursionError
    ELSE IF IsRestriction(gr, n)
    THEN LET present == {i \in 1..Len(Fillers) : Value(gr, n, Fillers[i][1]) # None}
             nested == {i \in present : IsNodeFiller(Value(gr, n, Fillers[i][1]))}
             vals == [i \in present |->
                        IF i \in nested
                        THEN summarize_expression(gr, Value(gr, n, Fillers[i][1]),
                                                  stack \cup {n})
                        ELSE fqJson(Value(gr, n, Fillers[i][1]))]
             failed == {i \in nested : IsFailure(vals[i])}
             KeyIndex(k) == CHOOSE i \in present : Fillers[i][2] = k
         IN  IF failed # {}
             THEN vals[CHOOSE i \in failed : \A j \in failed : i <= j]
             ELSE [k \in {"exprType", "onProperty"} \cup {Fillers[i][2] : i \in present} |->
                     IF k = "exprType" THEN "Restriction"
                     ELSE IF k = "onProperty" THEN fqJson(Value(gr, n, OWL_onProperty))
                     ELSE vals[KeyIndex(k)]]
    ELSE IF Value(gr, n, OWL_intersectionOf) # None
    THEN LET lst == rdf_list_to_py(gr, Value(gr, n, OWL_intersectionOf))
             ops == [i \in 1..Len(lst.items) |->
                        summarize_expression(gr, lst.items[i], stack \cup {n})]
         IN  IF lst.status = "hang" THEN Hang
             ELSE IF HasFailure(ops) THEN FirstFailure(ops)
             ELSE [exprType |-> "Intersection", operands |-> ops]
    ELSE IF Value(gr, n, OWL_unionOf) # None
    THEN LET lst == rdf_list_to_py(gr, Value(gr, n, OWL_unionOf))
             ops == [i \in 1..Len(lst.items) |->
                        summarize_expression(gr, lst.items[i], stack \cup {n})]
         IN  IF lst.status = "hang" THEN Hang
             ELSE IF HasFailure(ops) THEN FirstFailure(ops)
             ELSE [exprType |-> "Union", operands |-> ops]
    ELSE IF ComplementOperand(gr, n) # None
    THEN LET op == summarize_expression(gr, ComplementOperand(gr, n), stack \cup {n})
         IN  IF IsFailure(op) THEN op
             ELSE [exprType |-> "Complement", operand |-> op]
    ELSE IF Value(gr, n, OWL_oneOf) # None
    THEN LET lst == rdf_list_to_py(gr, Value(gr, n, OWL_oneOf))
             ops == [i \in 1..Len(lst.items) |->
                        summarize_expression(gr, lst.items[i], stack \cup {n})]
         IN  IF lst.status = "hang" THEN Hang
             ELSE IF HasFailure(ops) THEN FirstFailure(ops)
             ELSE [exprType |-> "OneOf", members |-> ops]
    ELSE [exprType |-> "BNode", props |-> GroupByPredicate(PredicateObjects(gr, n))]

(***************************************************************************)
(* Input graphs: every choice of at most k triples of a universe, in the   *)
(* universe's order or in the reverse order.                               *)
(***************************************************************************)
RECURSIVE IncreasingIndices(_, _, _)
IncreasingIndices(n, lo, k) ==
    {<<>>} \cup
    (IF k = 0 THEN {}
     ELSE UNION {{<<i>> \o s : s \in IncreasingIndices(n, i + 1, k - 1)} : i \in lo..n})

Reverse(s) == [i \in 1..Len(s) |-> s[Len(s) + 1 - i]]

GraphsOver(universe, k) ==
    LET picks == {[j \in 1..Len(ix) |-> universe[ix[j]]] :
                     ix \in IncreasingIndices(Len(universe), 1, k)}
    IN  picks \cup {Reverse(p) : p \in picks}

A == URIRef("A")
B == URIRef("B")
P == URIRef("P")
b1 == BNode("b1")
b2 == BNode("b2")

(***************************************************************************)
(* Specification of rdf_list_to_py: the graph holds up to MaxCells list    *)
(* links, each with at most one rdf:first (its own element, or missing)    *)
(* and at most one rdf:rest (to a link, to rdf:nil or missing), so         *)
(* well-formed, truncated, first-less and cyclic chains all occur.         *)
(***************************************************************************)
CellIds == <<"l1", "l2", "l3", "l4", "l5", "l6">>
Cell(i) == BNode(CellIds[i])
Cells == {Cell(i) : i \in 1..MaxCells}
ItemIds == <<"e1", "e2", "e3", "e4", "e5", "e6">>
Item(i) == URIRef(ItemIds[i])

RECURSIVE ListGraph(_, _, _)
ListGraph(f, r, i) ==
    IF i > MaxCells THEN <<>>
    ELSE (IF f[i] # None THEN << <<Cell(i), RDF_first, f[i]>> >> ELSE <<>>)
         \o (IF r[i] # None THEN << <<Cell(i), RDF_rest, r[i]>> >> ELSE <<>>)
         \o ListGraph(f, r, i + 1)

ListGraphs ==
    {ListGraph(f, r, 1) :
        f \in {h \in [1..MaxCells -> {None} \cup {Item(i) : i \in 1..MaxCells}] :
                  \A i \in 1..MaxCells : h[i] \in {None, Item(i)}},
        r \in [1..MaxCells -> {None, RDF_nil} \cup Cells]}

Idle ==
    /\ terms = <<>>
    /\ idx = 0
    /\ symbol_entries = <<>>
    /\ result_terms = <<>>

InitList ==
    /\ g \in ListGraphs
    /\ node \in {Cell(1), RDF_nil}
    /\ pc = "call"
    /\ out = <<>>
    /\ Idle

\* rdf_list_to_py(g, node) where the Collection iteration succeeds
ListByCollection ==
    /\ pc = "call"
    /\ ~CollectionItems(g, node, {node}, <<>>).raised
    /\ out' = rdf_list_to_py(g, node)
    /\ pc' = "returned"
    /\ UNCHANGED <<g, node, terms, idx, symbol_entries, result_terms>>

\* rdf_list_to_py(g, node) where it raises and the manual walk runs
ListByManualWalk ==
    /\ pc = "call"
    /\ CollectionItems(g, node, {node}, <<>>).raised
    /\ out' = rdf_list_to_py(g, node)
    /\ pc' = IF out'.status = "hang" THEN "hung" ELSE "returned"
    /\ UNCHANGED <<g, node, terms, idx, symbol_entries, result_terms>>

NextList == ListByCollection \/ ListByManualWalk

SpecList == InitList /\ [][NextList]_vars

(***************************************************************************)
(* Specification of summarize_expression: graphs of at most                *)
(* MaxExprTriples triples over two anonymous nodes and one list link.      *)
(***************************************************************************)
l1 == BNode("l1")

ExprUniverse ==
    << <<b1, RDF_type, OWL_Restriction>>,
       <<b1, OWL_onProperty, P>>,
       <<b1, OWL_someValuesFrom, A>>,
       <<b1, OWL_allValuesFrom, b2>>,
       <<b1, OWL_hasValue, Literal("A")>>,
       <<b1, OWL_minCardinality, Literal("1")>>,
       <<b1, OWL_cardinality, Variable("x")>>,
       <<b1, OWL_intersectionOf, l1>>,
       <<b1, OWL_unionOf, l1>>,
       <<b1, OWL_complementOf, b2>>,
       <<b1, OWL_complementOf, b1>>,
       <<b1, OWL_oneOf, l1>>,
       <<b1, RDFS_seeAlso, A>>,
       <<b1, RDFS_seeAlso, Literal("A")>>,
       <<b2, OWL_onProperty, P>>,
       <<b2, OWL_someValuesFrom, b1>>,
       <<b2, OWL_complementOf, b1>>,
       <<b2, OWL_unionOf, l1>>,
       <<b2, RDFS_seeAlso, b2>>,
       <<l1, RDF_first, A>>,
       <<l1, RDF_first, b2>>,
       <<l1, RDF_rest, RDF_nil>>,
       <<l1, RDF_rest, l1>> >>

InitExpr ==
    /\ g \in GraphsOver(ExprUniverse, MaxExprTriples)
    /\ node \in {b1, A, Literal("A"), Variable("x")}
    /\ pc = "call"
    /\ out = <<>>
    /\ Idle

\* summarize_expression(g, node) of a node that is not a BNode (lines 69-74)
SummarizeLeaf ==
    /\ pc = "call"
    /\ node.kind # "BNode"
    /\ out' = summarize_expression(g, node, {})
    /\ pc' = "returned"
    /\ UNCHANGED <<g, node, terms, idx, symbol_entries, result_terms>>

\* summarize_expression(g, node) of an anonymous node (lines 76-118)
SummarizeBNode ==
    /\ pc = "call"
    /\ node.kind = "BNode"
    /\ out' = summarize_expression(g, node, {})
    /\ pc' = IF out'.exprType = "RecursionError" THEN "raised"
             ELSE IF out'.exprType = "Hang" THEN "hung"
             ELSE "returned"
    /\ UNCHANGED <<g, node, terms, idx, symbol_entries, result_terms>>

NextExpr == SummarizeLeaf \/ SummarizeBNode

SpecExpr == InitExpr /\ [][NextExpr]_vars


(***************************************************************************)
(* get_literals_for_pred, collect_annotations and                          *)
(* extract_property_characteristics.                                       *)
(***************************************************************************)
MapIds(s) == [i \in 1..Len(s) |-> fq(s[i])]

RECURSIVE get_literals_for_pred(_, _, _)
get_literals_for_pred(gr, s, preds) ==
    IF preds = <<>> THEN <<>>
    ELSE MapIds(SelectSeq(Objects(gr, s, Head(preds)), LAMBDA o : o.kind = "Literal"))
         \o get_literals_for_pred(gr, s, Tail(preds))

\* Line 36: the predicates collect_annotations skips.
StructuralPredicates ==
    {RDF_type, RDFS_subClassOf, OWL_equivalentClass, RDFS_domain, RDFS_range,
     RDFS_subPropertyOf}

collect_annotations(gr, s) ==
    GroupByPredicate(SelectSeq(PredicateObjects(gr, s),
                               LAMBDA t : t[2] \notin StructuralPredicates))

\* The tags in the order the type triples are stored in.
extract_property_characteristics_AsStored(gr, prop) ==
    LET tag == [c \in {OWL_FunctionalProperty, OWL_InverseFunctionalProperty,
                       OWL_TransitiveProperty, OWL_SymmetricProperty,
                       OWL_AsymmetricProperty, OWL_ReflexiveProperty,
                       OWL_IrreflexiveProperty} |->
                   CASE c = OWL_FunctionalProperty -> "Functional"
                     [] c = OWL_InverseFunctionalProperty -> "InverseFunctional"
                     [] c = OWL_TransitiveProperty -> "Transitive"
                     [] c = OWL_SymmetricProperty -> "Symmetric"
                     [] c = OWL_AsymmetricProperty -> "Asymmetric"
                     [] c = OWL_ReflexiveProperty -> "Reflexive"
                     [] OTHER -> "Irreflexive"]
        ts == SelectSeq(Objects(gr, prop, RDF_type), LAMBDA o : o \in DOMAIN tag)
    IN  [i \in 1..Len(ts) |-> tag[ts[i]]]

extract_property_characteristics(gr, prop) ==
    (IF HasTriple(gr, prop, RDF_type, OWL_FunctionalProperty)
        THEN <<"Functional">> ELSE <<>>)
    \o (IF HasTriple(gr, prop, RDF_type, OWL_InverseFunctionalProperty)
        THEN <<"InverseFunctional">> ELSE <<>>)
    \o (IF HasTriple(gr, prop, RDF_type, OWL_TransitiveProperty)
        THEN <<"Transitive">> ELSE <<>>)
    \o (IF HasTriple(gr, prop, RDF_type, OWL_SymmetricProperty)
        THEN <<"Symmetric">> ELSE <<>>)
    \o (IF HasTriple(gr, prop, RDF_type, OWL_AsymmetricProperty)
        THEN <<"Asymmetric">> ELSE <<>>)
    \o (IF HasTriple(gr, prop, RDF_type, OWL_ReflexiveProperty)
        THEN <<"Reflexive">> ELSE <<>>)
    \o (IF HasTriple(gr, prop, RDF_type, OWL_IrreflexiveProperty)
        THEN <<"Irreflexive">> ELSE <<>>)

(***************************************************************************)
(* gather_terms.  terms is the list of (category, node) pairs of lines     *)
(* 148-172; symbol_entries is the dict of line 176 as the sequence of its  *)
(* values in insertion order.                                              *)
(***************************************************************************)
\* for item in items: if item not in lst: lst.append(item)
AppendAll(lst, items) == lst \o items
RECURSIVE AppendNew(_, _)
AppendNew(lst, items) ==
    IF items = <<>> THEN lst
    ELSE AppendNew(IF Head(items) \in Range(lst) THEN lst ELSE Append(lst, Head(items)),
                   Tail(items))

\* isinstance(s, URIRef)
IsURIRefAlways(s) == TRUE
IsURIRef(s) == s.kind = "URIRef"

\* any(t[1] == s for t in terms)
AlreadyATermNever(ts, s) == FALSE
AlreadyATerm(ts, s) == \E i \in 1..Len(ts) : ts[i][2] = s

\* Line 203: the categories whose pass fills the property fields.
IsPropertyCategoryAlways(cat) == TRUE
IsPropertyCategory(cat) ==
    cat \in {"ObjectProperty", "DatatypeProperty", "AnnotationProperty"}

\* The orders in which a set can be iterated.
Orders(S) ==
    {s \in [1..Cardinality(S) -> S] : \A i, j \in 1..Cardinality(S) : s[i] = s[j] => i = j}

Tagged(cat, s) == [i \in 1..Len(s) |-> <<cat, s[i]>>]

\* Lines 148-150, 156-164: the named subjects typed with a class, in any order
TypedTerms(gr, cat, cls) ==
    {Tagged(cat, s) : s \in Orders({x \in SubjectsOf(gr, RDF_type, cls) : IsURIRef(x)})}

\* Lines 151-154: the named subjects of subClassOf or equivalentClass triples
\* that are not terms yet
ImplicitClassTerms(gr, ts) ==
    {Tagged("Class", s) :
        s \in Orders({x \in Subjects(gr) :
                        /\ IsURIRef(x)
                        /\ HasAny(gr, x, RDFS_subClassOf) \/ HasAny(gr, x, OWL_equivalentClass)
                        /\ ~AlreadyATerm(ts, x)})}

\* Lines 166-172: the named subjects of rdf:type triples that are no terms yet
IndividualTerms(gr, ts) ==
    {Tagged("Individual", s) :
        s \in Orders({x \in SubjectsWith(gr, RDF_type) :
                        /\ IsURIRef(x)
                        /\ ~AlreadyATerm(ts, x)
                        /\ Len(Objects(gr, x, RDF_type)) > 0})}

\* Line 180: the value symbol_entries.get(iri, ...) falls back to
NewEntry(iri) ==
    [iri |-> iri, types |-> <<>>, labels |-> <<>>, altLabels |-> <<>>,
     comments |-> <<>>, annotations |-> <<>>, domains |-> <<>>, ranges |-> <<>>,
     subClassOf |-> <<>>, equivalentClass |-> <<>>, propertyCharacteristics |-> <<>>,
     subPropertyOf |-> <<>>, inverseOf |-> <<>>, individualTypes |-> <<>>]

HasEntry(entries, iri) == \E i \in 1..Len(entries) : entries[i].iri = iri
EntryIndex(entries, iri) == CHOOSE i \in 1..Len(entries) : entries[i].iri = iri
GetEntry(entries, iri) ==
    IF HasEntry(entries, iri) THEN entries[EntryIndex(entries, iri)] ELSE NewEntry(iri)

\* symbol_entries[iri] = entry
PutEntry(entries, iri, entry) ==
    IF HasEntry(entries, iri)
    THEN [entries EXCEPT ![EntryIndex(entries, iri)] = entry]
    ELSE Append(entries, entry)

\* Lines 196-200: merge the collected annotations into the entry's
MergeAnnotations(old, ann) ==
    [k \in DOMAIN old \cup DOMAIN ann |->
        AppendNew(IF k \in DOMAIN old THEN old[k] ELSE <<>>,
                  IF k \in DOMAIN ann THEN ann[k] ELSE <<>>)]

Summaries(gr, objs) == [i \in 1..Len(objs) |-> summarize_expression(gr, objs[i], {})]

\* The summaries the Class pass of a node builds, in the order it builds them
ClassSummaries(gr, n) ==
    Summaries(gr, Objects(gr, n, RDFS_subClassOf))
    \o Summaries(gr, Objects(gr, n, OWL_equivalentClass))

\* Lines 179-238: the entry after the pass of (cat, n)
MergedEntry(gr, entries, cat, n) ==
    LET e0 == GetEntry(entries, fq(n))
        e1 == [e0 EXCEPT
                 !.types = AppendNew(@, <<cat>>),
                 !.labels = AppendNew(@, get_literals_for_pred(gr, n,
                                            <<RDFS_label, SKOS_prefLabel>>)),
                 !.altLabels = AppendNew(@, get_literals_for_pred(gr, n, <<SKOS_altLabel>>)),
                 !.comments = AppendNew(@, get_literals_for_pred(gr, n, <<RDFS_comment>>)),
                 !.annotations = MergeAnnotations(@, collect_annotations(gr, n))]
        e2 == IF IsPropertyCategory(cat)
              THEN [e1 EXCEPT
                      !.domains = AppendNew(@, MapIds(Objects(gr, n, RDFS_domain))),
                      !.ranges = AppendNew(@, MapIds(Objects(gr, n, RDFS_range))),
                      !.subPropertyOf = AppendNew(@, MapIds(Objects(gr, n, RDFS_subPropertyOf))),
                      !.inverseOf = AppendNew(@, MapIds(Objects(gr, n, OWL_inverseOf))),
                      !.propertyCharacteristics = extract_property_characteristics(gr, n)]
              ELSE e1
        e3 == IF cat = "Class"
              THEN [e2 EXCEPT
                      !.subClassOf = @ \o Summaries(gr, Objects(gr, n, RDFS_subClassOf)),
                      !.equivalentClass =
                          @ \o Summaries(gr, Objects(gr, n, OWL_equivalentClass))]
              ELSE e2
    IN  IF cat = "Individual"
        THEN [e3 EXCEPT !.individualTypes = @ \o MapIds(Objects(gr, n, RDF_type))]
        ELSE e3

\* Lines 148-172
CollectTerms ==
    /\ pc = "start"
    /\ \E c1 \in TypedTerms(g, "Class", OWL_Class) :
       \E c2 \in ImplicitClassTerms(g, c1) :
       \E c3 \in TypedTerms(g, "ObjectProperty", OWL_ObjectProperty) :
       \E c4 \in TypedTerms(g, "DatatypeProperty", OWL_DatatypeProperty) :
       \E c5 \in TypedTerms(g, "AnnotationProperty", OWL_AnnotationProperty) :
       \E c6 \in IndividualTerms(g, c1 \o c2 \o c3 \o c4 \o c5) :
           terms' = c1 \o c2 \o c3 \o c4 \o c5 \o c6
    /\ idx' = 1
    /\ pc' = "merge"
    /\ UNCHANGED <<g, node, out, symbol_entries, result_terms>>

\* Lines 178-238: one pass of the loop over terms.  A summary that does not
\* return ends gather_terms without a result.
ProcessTerm ==
    /\ pc = "merge"
    /\ idx <= Len(terms)
    /\ LET cat == terms[idx][1]
           n == terms[idx][2]
           sums == IF cat = "Class" THEN ClassSummaries(g, n) ELSE <<>>
       IN  IF HasFailure(sums)
           THEN /\ pc' = IF FirstFailure(sums) = Hang THEN "hung" ELSE "raised"
                /\ UNCHANGED <<symbol_entries, idx>>
           ELSE /\ symbol_entries' = PutEntry(symbol_entries, fq(n),
                                              MergedEntry(g, symbol_entries, cat, n))
                /\ idx' = idx + 1
                /\ pc' = "merge"
    /\ UNCHANGED <<g, node, out, terms, result_terms>>

\* Lines 241-242
ReturnTerms ==
    /\ pc = "merge"
    /\ idx > Len(terms)
    /\ result_terms' = symbol_entries
    /\ pc' = "done"
    /\ UNCHANGED <<g, node, out, terms, idx, symbol_entries>>

NextTerms == CollectTerms \/ ProcessTerm \/ ReturnTerms

\* Roles, class expressions and individuals
RoleUniverse ==
    << <<A, RDF_type, OWL_Class>>,
       <<A, RDF_type, OWL_ObjectProperty>>,
       <<A, RDF_type, OWL_DatatypeProperty>>,
       <<A, RDF_type, OWL_AnnotationProperty>>,
       <<A, RDF_type, B>>,
       <<A, RDF_type, OWL_Restriction>>,
       <<A, RDFS_subClassOf, B>>,
       <<A, RDFS_subClassOf, b1>>,
       <<A, RDFS_subClassOf, b2>>,
       <<A, OWL_equivalentClass, b1>>,
       <<A, RDFS_domain, B>>,
       <<A, OWL_inverseOf, B>>,
       <<B, RDF_type, OWL_Class>>,
       <<B, RDF_type, A>>,
       <<B, OWL_equivalentClass, A>>,
       <<b1, RDF_type, OWL_Class>>,
       <<b1, RDFS_subClassOf, A>>,
       <<b1, OWL_complementOf, B>>,
       <<b2, OWL_complementOf, B>>,
       <<b1, OWL_complementOf, b1>> >>

\* Properties: their roles, characteristics and structural fields
PropertyUniverse ==
    << <<P, RDF_type, OWL_IrreflexiveProperty>>,
       <<P, RDF_type, OWL_TransitiveProperty>>,
       <<P, RDF_type, OWL_ObjectProperty>>,
       <<P, RDF_type, OWL_DatatypeProperty>>,
       <<P, RDF_type, OWL_FunctionalProperty>>,
       <<P, RDF_type, OWL_SymmetricProperty>>,
       <<P, RDF_type, OWL_Class>>,
       <<P, RDFS_domain, A>>,
       <<P, RDFS_domain, Literal("A")>>,
       <<P, RDFS_range, B>>,
       <<P, RDFS_subPropertyOf, A>>,
       <<P, OWL_inverseOf, B>>,
       <<b1, RDF_type, OWL_FunctionalProperty>>,
       <<b1, RDF_type, OWL_ObjectProperty>> >>

\* Annotations: several roles, structural and other predicates, objects
\* with the same and with different string forms
AnnotationUniverse ==
    << <<A, RDF_type, OWL_Class>>,
       <<A, RDF_type, OWL_ObjectProperty>>,
       <<A, RDF_type, B>>,
       <<A, RDFS_subClassOf, B>>,
       <<A, OWL_equivalentClass, B>>,
       <<A, RDFS_domain, B>>,
       <<A, RDFS_range, B>>,
       <<A, RDFS_subPropertyOf, B>>,
       <<A, OWL_inverseOf, B>>,
       <<A, RDFS_label, Literal("x")>>,
       <<A, RDFS_comment, Literal("x")>>,
       <<A, SKOS_altLabel, Literal("y")>>,
       <<A, SKOS_prefLabel, Literal("x")>>,
       <<A, RDFS_seeAlso, B>>,
       <<A, RDFS_seeAlso, Literal("B")>>,
       <<A, RDFS_seeAlso, Literal("x")>>,
       <<A, RDFS_seeAlso, b1>> >>

InitTerms ==
    /\ g \in GraphsOver(RoleUniverse, MaxTermTriples)
             \cup GraphsOver(PropertyUniverse, MaxTermTriples)
             \cup GraphsOver(AnnotationUniverse, MaxTermTriples)
    /\ node = None
    /\ pc = "start"
    /\ out = <<>>
    /\ Idle

SpecTerms == InitTerms /\ [][NextTerms]_vars

(***************************************************************************)
(* Properties of summarize_expression (SpecExpr).                          *)
(***************************************************************************)
ExprTypes ==
    {"Named", "Literal", "Restriction", "Intersection", "Union", "Complement",
     "OneOf", "BNode", "Unknown"}

\* The variant the dispatch order of the specification gives a node.
DispatchOrder(gr, n) ==
    IF n.kind = "URIRef" THEN "Named"
    ELSE IF n.kind = "Literal" THEN "Literal"
    ELSE IF n.kind = "BNode"
    THEN IF HasTriple(gr, n, RDF_type, OWL_Restriction) \/ HasAny(gr, n, OWL_onProperty)
         THEN "Restriction"
         ELSE IF HasAny(gr, n, OWL_intersectionOf) THEN "Intersection"
         ELSE IF HasAny(gr, n, OWL_unionOf) THEN "Union"
         ELSE IF HasAny(gr, n, OWL_complementOf) THEN "Complement"
         ELSE IF HasAny(gr, n, OWL_oneOf) THEN "OneOf"
         ELSE "BNode"
    ELSE "Unknown"

RECURSIVE Reach(_, _, _)
Reach(gr, S, k) ==
    IF k = 0 THEN S
    ELSE Reach(gr, S \cup {gr[i][3] : i \in {j \in 1..Len(gr) : gr[j][1] \in S}}, k - 1)

\* The graph has a cycle that passes through a triple with a predicate of K.
CycleThrough(gr, K) ==
    \E i \in 1..Len(gr) :
        gr[i][2] \in K /\ gr[i][1] \in Reach(gr, {gr[i][3]}, Len(gr))

ListLinks == {RDF_first, RDF_rest}
RestrictionLinks == {OWL_onProperty} \cup {Fillers[i][1] : i \in 1..Len(Fillers)}

\* A BNode record holds the string forms of the node's own objects.
ImmediatePairsOnly(gr, n, rec) ==
    /\ DOMAIN rec.props = {fq(gr[i][2]) : i \in {j \in 1..Len(gr) : gr[j][1] = n}}
    /\ \A k \in DOMAIN rec.props :
          rec.props[k] = MapThirdIds(SelectSeq(gr, LAMBDA t : t[1] = n /\ fq(t[2]) = k))

\* C5 as stated: with no cycle through list links or restriction links the
\* call returns.
C5_TerminatesAsStated ==
    ~CycleThrough(g, ListLinks \cup RestrictionLinks) => pc \notin {"raised", "hung"}

\* C5 amended: with no cycle through list links, restriction links or
\* owl:complementOf links the call returns (no unbounded recursion, no
\* hanging list walk), and a BNode record holds nothing but the string forms
\* of the node's immediate (predicate, object) pairs.
C5_Terminates ==
    /\ ~CycleThrough(g, ListLinks \cup RestrictionLinks \cup {OWL_complementOf})
          => pc \notin {"raised", "hung"}
    /\ (pc = "returned" /\ out.exprType = "BNode") => ImmediatePairsOnly(g, node, out)

\* A Complement of an anonymous node was summarized in a graph whose only
\* cycle is through an rdfs:seeAlso link of that node.
C5_Witness ==
    /\ pc = "returned"
    /\ ~CycleThrough(g, ListLinks \cup RestrictionLinks \cup {OWL_complementOf})
    /\ CycleThrough(g, {RDFS_seeAlso})
    /\ out.exprType = "Complement"
    /\ out.operand.exprType = "BNode"

\* C9: a Restriction record has the keys exprType, onProperty and exactly the
\* filler keys whose predicate has a value on the node; a filler that is a
\* named or anonymous node is a nested Expression Record and a literal filler
\* is its raw string form.
C9_RestrictionFillers ==
    (pc = "returned" /\ out.exprType = "Restriction") =>
        /\ DOMAIN out = {"exprType", "onProperty"} \cup
                        {Fillers[i][2] : i \in {j \in 1..Len(Fillers) :
                                                  HasAny(g, node, Fillers[j][1])}}
        /\ \A i \in 1..Len(Fillers) :
              LET os == Objects(g, node, Fillers[i][1])
              IN  Len(os) > 0 =>
                    \E j \in 1..Len(os) :
                        CASE os[j].kind = "URIRef" ->
                                out[Fillers[i][2]] = [exprType |-> "Named", iri |-> os[j].id]
                          [] os[j].kind = "BNode" ->
                                /\ "exprType" \in DOMAIN out[Fillers[i][2]]
                                /\ out[Fillers[i][2]].exprType \in ExprTypes
                          [] os[j].kind = "Literal" ->
                                out[Fillers[i][2]] = JStr(os[j].id)
                          [] OTHER -> TRUE

\* A Restriction with an anonymous filler and a literal filler, and no other,
\* was summarized.
C9_Witness ==
    /\ pc = "returned"
    /\ node = b1
    /\ out.exprType = "Restriction"
    /\ HasAny(g, b1, OWL_hasValue)
    /\ HasAny(g, b1, OWL_allValuesFrom)
    /\ DOMAIN out = {"exprType", "onProperty", "hasValue", "allValuesFrom"}


(***************************************************************************)
(* Properties of rdf_list_to_py (SpecList).                                *)
(***************************************************************************)
\* path is the chain of list links rooted at n: each link has an rdf:first,
\* each but the last has the next as its rdf:rest, and the last one's
\* rdf:rest is rdf:nil (a complete list) or missing (a truncated one).
IsChainFrom(gr, n, path) ==
    LET N == Len(path)
    IN  /\ N >= 1
        /\ path[1] = n
        /\ \A i \in 1..N : HasAny(gr, path[i], RDF_first)
        /\ \A i \in 1..(N - 1) : HasTriple(gr, path[i], RDF_rest, path[i + 1])
        /\ \A i, j \in 1..N : path[i] = path[j] => i = j
        /\ \/ HasTriple(gr, path[N], RDF_rest, RDF_nil)
           \/ ~HasAny(gr, path[N], RDF_rest)

Paths == UNION {[1..N -> Cells] : N \in 1..MaxCells}

\* C4: for an acyclic first/rest chain of N links from the node, ending in
\* rdf:nil or cut short by a missing rdf:rest, rdf_list_to_py returns, without
\* error, exactly the N rdf:first values in chain order; for rdf:nil itself
\* it returns the empty list.
C4_ListInOrder ==
    pc # "call" =>
        /\ \A path \in Paths :
              IsChainFrom(g, node, path) =>
                  /\ pc = "returned"
                  /\ out.status = "ok"
                  /\ out.items = [i \in 1..Len(path) |-> Value(g, path[i], RDF_first)]
        /\ node = RDF_nil => (pc = "returned" /\ out.items = <<>>)

\* A list of two different elements whose second link has no rdf:rest was
\* materialized.
C4_Witness ==
    /\ pc = "returned"
    /\ IsChainFrom(g, node, <<Cell(1), Cell(2)>>)
    /\ ~HasAny(g, Cell(2), RDF_rest)
    /\ out.items = <<Item(1), Item(2)>>


(***************************************************************************)
(* Properties of gather_terms (SpecTerms).                                 *)
(***************************************************************************)
Roles == <<"Class", "ObjectProperty", "DatatypeProperty", "AnnotationProperty">>

RoleClass(role) ==
    CASE role = "Class" -> OWL_Class
      [] role = "ObjectProperty" -> OWL_ObjectProperty
      [] role = "DatatypeProperty" -> OWL_DatatypeProperty
      [] role = "AnnotationProperty" -> OWL_AnnotationProperty

\* (a) typed with one of the four role classes
ExplicitlyTyped(gr, s) == \E i \in 1..Len(Roles) : HasTriple(gr, s, RDF_type, RoleClass(Roles[i]))
\* (b) subject of a subClassOf or equivalentClass triple
ClassByUsage(gr, s) == HasAny(gr, s, RDFS_subClassOf) \/ HasAny(gr, s, OWL_equivalentClass)
\* (c) subject of any other rdf:type triple
OtherwiseTyped(gr, s) ==
    \E i \in 1..Len(gr) :
        /\ gr[i][1] = s
        /\ gr[i][2] = RDF_type
        /\ gr[i][3] \notin {RoleClass(Roles[j]) : j \in 1..Len(Roles)}

TermResources(gr) ==
    {s \in Subjects(gr) :
        /\ s.kind = "URIRef"
        /\ ExplicitlyTyped(gr, s) \/ ClassByUsage(gr, s) \/ OtherwiseTyped(gr, s)}

\* C1: gather_terms returns exactly one Term Record for each named resource
\* that is typed with a role class, is the subject of a subClassOf or
\* equivalentClass triple or is the subject of any other rdf:type triple, and
\* no record for anything else (an anonymous node, an untyped resource).
C1_OneRecordPerResource ==
    pc = "done" =>
        /\ \A s \in TermResources(g) :
              Cardinality({i \in 1..Len(result_terms) : result_terms[i].iri = fq(s)}) = 1
        /\ \A i \in 1..Len(result_terms) :
              \E s \in TermResources(g) : result_terms[i].iri = fq(s)
        /\ \A i, j \in 1..Len(result_terms) :
              result_terms[i].iri = result_terms[j].iri => i = j

\* A resource typed owl:Class and owl:ObjectProperty that is also the subject
\* of a subClassOf triple got its single record.
C1_Witness ==
    /\ pc = "done"
    /\ HasTriple(g, A, RDF_type, OWL_Class)
    /\ HasTriple(g, A, RDF_type, OWL_ObjectProperty)
    /\ HasAny(g, A, RDFS_subClassOf)
    /\ Len(result_terms) = 1
    /\ result_terms[1].iri = "A"

RoleMatches(gr, s, role) ==
    \/ HasTriple(gr, s, RDF_type, RoleClass(role))
    \/ role = "Class" /\ ClassByUsage(gr, s)

ExpectedTypes(gr, s) ==
    LET roles == SelectSeq(Roles, LAMBDA r : RoleMatches(gr, s, r))
    IN  IF roles = <<>> THEN <<"Individual">> ELSE roles

\* C2: the types of a Term Record are the roles among Class (typed or by
\* usage), ObjectProperty, DatatypeProperty, AnnotationProperty that the
\* resource matches, once each and in that order, and Individual alone when
\* it matches none of them.
C2_TypesInOrder ==
    pc = "done" =>
        \A i \in 1..Len(result_terms) :
            result_terms[i].types = ExpectedTypes(g, URIRef(result_terms[i].iri))

\* A class by usage that is also an object property, and an individual.
C2_Witness ==
    /\ pc = "done"
    /\ ~HasTriple(g, A, RDF_type, OWL_Class)
    /\ \E i, j \in 1..Len(result_terms) :
          /\ result_terms[i].types = <<"Class", "ObjectProperty">>
          /\ result_terms[j].types = <<"Individual">>

NoRepeats(s) == \A i, j \in 1..Len(s) : s[i] = s[j] => i = j

\* C6 as stated: the subClassOf (equivalentClass) list of a class record
\* holds the summary of every subClassOf (equivalentClass) object and no two
\* entries of a list are identical.
C6_DuplicateSummariesCollapse ==
    pc = "done" =>
        \A i \in 1..Len(result_terms) :
            LET r == result_terms[i]
                n == URIRef(r.iri)
            IN  "Class" \in Range(r.types) =>
                  /\ Range(r.subClassOf) =
                        Range(Summaries(g, Objects(g, n, RDFS_subClassOf)))
                  /\ Range(r.equivalentClass) =
                        Range(Summaries(g, Objects(g, n, OWL_equivalentClass)))
                  /\ NoRepeats(r.subClassOf)
                  /\ NoRepeats(r.equivalentClass)

\* The string forms of the objects of the triples of n whose predicate has
\* the string form k, in store order.
ObjectStrings(gr, n, k) == MapThirdIds(SelectSeq(gr, LAMBDA t : t[1] = n /\ fq(t[2]) = k))

FirstIndex(s, x) == CHOOSE i \in 1..Len(s) : s[i] = x /\ \A j \in 1..(i - 1) : s[j] # x

\* lst holds the values of raw, each once, in the order they first occur.
FirstSeenOrder(lst, raw) ==
    /\ Range(lst) = Range(raw)
    /\ NoRepeats(lst)
    /\ \A i, j \in 1..Len(lst) : i < j => FirstIndex(raw, lst[i]) < FirstIndex(raw, lst[j])

\* C7: the annotations of a Term Record have no structural predicate as a
\* key, have a key for every other predicate of the resource, and list under
\* it the string forms of its objects in first-seen order, none twice.
C7_Annotations ==
    pc = "done" =>
        \A i \in 1..Len(result_terms) :
            LET r == result_terms[i]
                n == URIRef(r.iri)
            IN  /\ DOMAIN r.annotations \cap {fq(p) : p \in StructuralPredicates} = {}
                /\ DOMAIN r.annotations =
                      {fq(g[j][2]) : j \in {k \in 1..Len(g) :
                                              g[k][1] = n /\ g[k][2] \notin StructuralPredicates}}
                /\ \A k \in DOMAIN r.annotations :
                      FirstSeenOrder(r.annotations[k], ObjectStrings(g, n, k))

\* A resource with an rdfs:seeAlso object was processed under two roles.
C7_Witness ==
    /\ pc = "done"
    /\ Len(result_terms) = 1
    /\ Len(result_terms[1].types) = 2
    /\ HasTriple(g, A, RDFS_seeAlso, B)
    /\ result_terms[1].annotations = [k \in {"rdfs:seeAlso"} |-> <<"B">>]

CharacteristicTags ==
    << <<OWL_FunctionalProperty, "Functional">>,
       <<OWL_InverseFunctionalProperty, "InverseFunctional">>,
       <<OWL_TransitiveProperty, "Transitive">>,
       <<OWL_SymmetricProperty, "Symmetric">>,
       <<OWL_AsymmetricProperty, "Asymmetric">>,
       <<OWL_ReflexiveProperty, "Reflexive">>,
       <<OWL_IrreflexiveProperty, "Irreflexive">> >>

ExpectedCharacteristics(gr, n) ==
    LET sel == SelectSeq(CharacteristicTags, LAMBDA c : HasTriple(gr, n, RDF_type, c[1]))
    IN  [i \in 1..Len(sel) |-> sel[i][2]]

HasPropertyRole(r) ==
    Range(r.types) \cap {"ObjectProperty", "DatatypeProperty", "AnnotationProperty"} # {}

\* C8: extract_property_characteristics gives the tags of the capability
\* classes a node is typed with, once each, in the fixed order whatever the
\* store order; the record of a property has exactly that list, so
\* [Functional, Transitive] for one typed functional and transitive, also
\* after passes under several property roles.
C8_Characteristics ==
    /\ \A s \in Subjects(g) :
          extract_property_characteristics(g, s) = ExpectedCharacteristics(g, s)
    /\ pc = "done" =>
          \A i \in 1..Len(result_terms) :
              LET r == result_terms[i]
                  n == URIRef(r.iri)
              IN  HasPropertyRole(r) =>
                    /\ r.propertyCharacteristics = ExpectedCharacteristics(g, n)
                    /\ ({o \in Range(Objects(g, n, RDF_type)) :
                            \E c \in Range(CharacteristicTags) : c[1] = o}
                          = {OWL_FunctionalProperty, OWL_TransitiveProperty}
                        => r.propertyCharacteristics = <<"Functional", "Transitive">>)

\* An object property whose owl:TransitiveProperty triple is stored before
\* its owl:FunctionalProperty triple.
C8_Witness ==
    /\ pc = "done"
    /\ g = << <<P, RDF_type, OWL_TransitiveProperty>>,
              <<P, RDF_type, OWL_ObjectProperty>>,
              <<P, RDF_type, OWL_FunctionalProperty>> >>
    /\ result_terms[1].propertyCharacteristics = <<"Functional", "Transitive">>

\* C10: the property fields of a record are empty unless it has a property
\* role, its subClassOf and equivalentClass are empty unless it has the Class
\* role, and its individualTypes is empty unless it is an Individual, when it
\* lists the string form of every rdf:type object of the resource.
C10_RoleFields ==
    pc = "done" =>
        \A i \in 1..Len(result_terms) :
            LET r == result_terms[i]
                n == URIRef(r.iri)
            IN  /\ ~HasPropertyRole(r) =>
                      /\ r.domains = <<>>
                      /\ r.ranges = <<>>
                      /\ r.subPropertyOf = <<>>
                      /\ r.inverseOf = <<>>
                      /\ r.propertyCharacteristics = <<>>
                /\ "Class" \notin Range(r.types) =>
                      r.subClassOf = <<>> /\ r.equivalentClass = <<>>
                /\ "Individual" \notin Range(r.types) => r.individualTypes = <<>>
                /\ "Individual" \in Range(r.types) =>
                      r.individualTypes = MapIds(Objects(g, n, RDF_type))

\* An individual with an rdfs:domain and an owl:inverseOf triple.
C10_Witness ==
    /\ pc = "done"
    /\ HasAny(g, A, RDFS_domain)
    /\ HasAny(g, A, OWL_inverseOf)
    /\ \E i \in 1..Len(result_terms) :
          /\ result_terms[i].iri = "A"
          /\ result_terms[i].types = <<"Individual">>
          /\ result_terms[i].individualTypes = <<"B">>
          /\ result_terms[i].domains = <<>>

====
